---- MODULE Spec2Model ----
(***************************************************************************)
(* Model of serp-similarity.py: the "Compare Results" handler of main(),   *)
(* the two perform_search calls, and analyze_serp_similarity with          *)
(* get_domain.  URLs are sequences of one-character strings so that        *)
(* urlparse(...).netloc and str.replace('www.', '') are computed, not      *)
(* assumed.  Ratios are kept as exact fractions [num, den].                *)
(***************************************************************************)
EXTENDS Integers, Sequences, FiniteSets, TLC

\* Total number of organic results over the two responses of one comparison.
MaxResults == 5

\* The position-change threshold of analyze_serp_similarity.
Threshold == 2

\* The factor that turns a ratio into a percentage.
Percent == 100

----------------------------------------------------------------------------
\* Strings as character sequences.

Https == <<"h", "t", "t", "p", "s", ":", "/", "/">>

UrlA1 == Https \o <<"a", ".", "c", "o", "m", "/", "1">>
UrlB1 == Https \o <<"b", ".", "c", "o", "m", "/", "1">>
UrlB2 == Https \o <<"b", ".", "c", "o", "m", "/", "2">>
UrlWwwA2 == Https \o <<"w", "w", "w", ".", "a", ".", "c", "o", "m", "/", "2">>
UrlBWww1 == Https \o <<"b", ".", "w", "w", "w", ".", "c", "o", "m", "/", "1">>

\* The links a search response may carry.
Links == {UrlA1, UrlB1, UrlB2, UrlWwwA2, UrlBWww1}

Www == <<"w", "w", "w", ".">>

\* s[i..] in Python slice notation s[i-1:].
Drop(s, n) == SubSeq(s, n + 1, Len(s))

\* s.find(c) + 1, or 0 when c does not occur in s.
RECURSIVE FindFrom(_, _, _)
FindFrom(s, cs, i) ==
    IF i > Len(s) THEN 0
    ELSE IF s[i] \in cs THEN i
    ELSE FindFrom(s, cs, i + 1)

Contains(s, c) == \E i \in 1..Len(s) : s[i] = c

\* urlparse(url): the part after "scheme:".
AfterScheme(url) ==
    LET i == FindFrom(url, {":"}, 1)
    IN  IF i > 1 THEN Drop(url, i) ELSE url

\* urlparse(url).netloc: between "//" and the first of "/", "?", "#".
Netloc(url) ==
    LET rest == AfterScheme(url)
    IN  IF Len(rest) >= 2 /\ SubSeq(rest, 1, 2) = <<"/", "/">>
        THEN LET delim == FindFrom(rest, {"/", "?", "#"}, 3)
             IN  IF delim = 0 THEN Drop(rest, 2)
                 ELSE SubSeq(rest, 3, delim - 1)
        ELSE <<>>

\* urlparse raises ValueError("Invalid IPv6 URL") on unbalanced brackets.
UrlparseRaises(url) ==
    LET n == Netloc(url)
    IN  Contains(n, "[") # Contains(n, "]")

\* s.replace('www.', ''): every non-overlapping occurrence, left to right.
RECURSIVE ReplaceWww(_)
ReplaceWww(s) ==
    IF Len(s) < Len(Www) THEN s
    ELSE IF SubSeq(s, 1, Len(Www)) = Www THEN ReplaceWww(Drop(s, Len(Www)))
    ELSE <<Head(s)>> \o ReplaceWww(Tail(s))

get_domain(url) ==
    IF UrlparseRaises(url) THEN url ELSE ReplaceWww(Netloc(url))

----------------------------------------------------------------------------
\* analyze_serp_similarity and its parts.

Abs(n) == IF n < 0 THEN -n ELSE n

Max(a, b) == IF a >= b THEN a ELSE b

EmptyDict == [k \in {} |-> 0]

\* {key: i+1 for i, key in enumerate(keys)}: the entries are stored in
\* iteration order, each store overwriting the value already under its key.
RECURSIVE DictStore(_, _, _)
DictStore(keys, i, d) ==
    IF i > Len(keys) THEN d
    ELSE DictStore(keys, i + 1,
                   [k \in DOMAIN d \cup {keys[i]} |->
                       IF k = keys[i] THEN i ELSE d[k]])

DictComprehension(keys) == DictStore(keys, 1, EmptyDict)

\* results.get('organic', [])
GetOrganic(results) ==
    IF "organic" \in DOMAIN results THEN results.organic ELSE <<>>

DomainIndex(organic) ==
    DictComprehension([i \in 1..Len(organic) |-> get_domain(organic[i].link)])

UrlIndex(organic) ==
    DictComprehension([i \in 1..Len(organic) |-> organic[i].link])

common_domains(domains1, domains2) == DOMAIN domains1 \cap DOMAIN domains2

\* Variant: the URLs of either list, not of both.
common_urls_Union(urls1, urls2) == DOMAIN urls1 \cup DOMAIN urls2

common_urls(urls1, urls2) == DOMAIN urls1 \cap DOMAIN urls2

\* Variant: the signed difference, abs() forgotten.
position_differences_Signed(common, domains1, domains2) ==
    [domain \in common |-> domains1[domain] - domains2[domain]]

position_differences(common, domains1, domains2) ==
    [domain \in common |-> Abs(domains1[domain] - domains2[domain])]

\* Variant: divides by the size of the first index only.
Similarity_Len1(common, index1, index2) ==
    [num |-> Cardinality(common) * Percent,
     den |-> Cardinality(DOMAIN index1)]

\* Variant: divides by the sum of the two sizes.
Similarity_Sum(common, index1, index2) ==
    [num |-> Cardinality(common) * Percent,
     den |-> Cardinality(DOMAIN index1) + Cardinality(DOMAIN index2)]

\* len(common) / max(len(index1), len(index2)) * 100 as a fraction; the
\* division raises ZeroDivisionError when den = 0.
Similarity(common, index1, index2) ==
    [num |-> Cardinality(common) * Percent,
     den |-> Max(Cardinality(DOMAIN index1), Cardinality(DOMAIN index2))]

RECURSIVE SumValues(_, _)
SumValues(f, keys) ==
    IF keys = {} THEN 0
    ELSE LET k == CHOOSE x \in keys : TRUE
         IN  f[k] + SumValues(f, keys \ {k})

\* np.mean(list(position_differences.values())) if position_differences else 0
avg_position_diff(differences) ==
    IF DOMAIN differences = {} THEN [num |-> 0, den |-> 1]
    ELSE [num |-> SumValues(differences, DOMAIN differences),
          den |-> Cardinality(DOMAIN differences)]

\* Variant: the threshold test written with >= instead of >.
position_changes_GE(common, domains1, domains2) ==
    [domain \in {d \in common : Abs(domains1[d] - domains2[d]) >= Threshold} |->
        [pos1 |-> domains1[domain],
         pos2 |-> domains2[domain],
         diff |-> domains2[domain] - domains1[domain]]]

position_changes(common, domains1, domains2) ==
    [domain \in {d \in common : Abs(domains1[d] - domains2[d]) > Threshold} |->
        [pos1 |-> domains1[domain],
         pos2 |-> domains2[domain],
         diff |-> domains2[domain] - domains1[domain]]]

\* The division of line 161 (and of line 162) raises ZeroDivisionError.
AnalyzeRaises(r1, r2) ==
    LET organic1 == GetOrganic(r1)
        organic2 == GetOrganic(r2)
    IN  \/ Similarity(common_domains(DomainIndex(organic1), DomainIndex(organic2)),
                      DomainIndex(organic1), DomainIndex(organic2)).den = 0
        \/ Similarity(common_urls(UrlIndex(organic1), UrlIndex(organic2)),
                      UrlIndex(organic1), UrlIndex(organic2)).den = 0

analyze_serp_similarity(r1, r2) ==
    LET organic1 == GetOrganic(r1)
        organic2 == GetOrganic(r2)
        domains1 == DomainIndex(organic1)
        domains2 == DomainIndex(organic2)
        urls1 == UrlIndex(organic1)
        urls2 == UrlIndex(organic2)
        cd == common_domains(domains1, domains2)
        cu == common_urls(urls1, urls2)
        pd == position_differences(cd, domains1, domains2)
    IN  [common_domains |-> cd,
         common_urls |-> cu,
         domain_similarity |-> Similarity(cd, domains1, domains2),
         url_similarity |-> Similarity(cu, urls1, urls2),
         position_differences |-> pd,
         avg_position_diff |-> avg_position_diff(pd),
         position_changes |-> position_changes(cd, domains1, domains2),
         domains1 |-> domains1,
         domains2 |-> domains2,
         total_results1 |-> Len(organic1),
         total_results2 |-> Len(organic2)]

----------------------------------------------------------------------------
\* The "Compare Results" handler of main().

VARIABLES pc, results1, results2, similarity, error

vars == <<pc, results1, results2, similarity, error>>

\* A local not yet assigned.
Unset == [unset |-> TRUE]

\* One organic entry; only 'link' is read by the analysis.
Results == {[link |-> u] : u \in Links}

OrganicLists(n) == UNION {[1..k -> Results] : k \in 0..n}

\* response.json(): a page of organic results, or an error body without them.
Responses(n) ==
    {[organic |-> o] : o \in OrganicLists(n)} \cup {[message |-> "Unauthorized"]}

Init ==
    /\ pc = "idle"
    /\ results1 = Unset
    /\ results2 = Unset
    /\ similarity = Unset
    /\ error = "none"

\* st.button("Compare Results") returns True.
ClickCompare ==
    /\ pc = "idle"
    /\ pc' = "search1"
    /\ UNCHANGED <<results1, results2, similarity, error>>

\* results1 = perform_search(query1, api_key)
Search1 ==
    /\ pc = "search1"
    /\ \E r \in Responses(MaxResults) :
          results1' = r
    /\ pc' = "search2"
    /\ UNCHANGED <<results2, similarity, error>>

\* results2 = perform_search(query2, api_key)
Search2 ==
    /\ pc = "search2"
    /\ \E r \in Responses(MaxResults - Len(GetOrganic(results1))) :
          results2' = r
    /\ pc' = "analyze"
    /\ UNCHANGED <<results1, similarity, error>>

\* requests.post or response.json() raises; caught by the handler's except.
SearchFails ==
    /\ pc \in {"search1", "search2"}
    /\ pc' = "error"
    /\ error' = "RequestException"
    /\ UNCHANGED <<results1, results2, similarity>>

\* similarity = analyze_serp_similarity(results1, results2)
Analyze ==
    /\ pc = "analyze"
    /\ IF AnalyzeRaises(results1, results2)
       THEN /\ pc' = "error"
            /\ error' = "ZeroDivisionError"
            /\ UNCHANGED similarity
       ELSE /\ pc' = "done"
            /\ similarity' = analyze_serp_similarity(results1, results2)
            /\ UNCHANGED error
    /\ UNCHANGED <<results1, results2>>

\* The script is rerun from the top on the next interaction.
Rerun ==
    /\ pc \in {"done", "error"}
    /\ pc' = "idle"
    /\ results1' = Unset
    /\ results2' = Unset
    /\ similarity' = Unset
    /\ error' = "none"

Next ==
    \/ ClickCompare
    \/ Search1
    \/ Search2
    \/ SearchFails
    \/ Analyze
    \/ Rerun

Spec == Init /\ [][Next]_vars

----------------------------------------------------------------------------
\* Vocabulary of the properties.

Organic1 == GetOrganic(results1)
Organic2 == GetOrganic(results2)

\* analyze_serp_similarity returned.
Done == pc = "done"

\* analyze_serp_similarity was called and returned or raised.
Analysed == pc = "done" \/ (pc = "error" /\ error = "ZeroDivisionError")

DomainAt(organic, i) == get_domain(organic[i].link)

DomainsOf(organic) == {DomainAt(organic, i) : i \in 1..Len(organic)}

UrlsOf(organic) == {organic[i].link : i \in 1..Len(organic)}

\* The smallest 1-based position of domain d in the list.
FirstPosition(organic, d) ==
    CHOOSE i \in 1..Len(organic) :
        /\ DomainAt(organic, i) = d
        /\ \A j \in 1..(i - 1) : DomainAt(organic, j) # d

HasDuplicateDomain(organic) ==
    \E i, j \in 1..Len(organic) : i < j /\ DomainAt(organic, i) = DomainAt(organic, j)

IsZero(ratio) == ratio.num = 0

IsHundred(ratio) == ratio.den > 0 /\ ratio.num = 100 * ratio.den

InRange(ratio) == ratio.den > 0 /\ 0 <= ratio.num /\ ratio.num <= 100 * ratio.den

\* The host with a 'www.' prefix, if any, removed once.
StripLeadingWww(host) ==
    IF Len(host) >= 4 /\ SubSeq(host, 1, 4) = Www THEN Drop(host, 4) ELSE host

\* host1 is host2 with one 'www.' inserted at a position other than the start.
DiffersByInnerWww(host1, host2) ==
    \E i \in 2..(Len(host1) - 3) :
        /\ SubSeq(host1, i, i + 3) = Www
        /\ host2 = SubSeq(host1, 1, i - 1) \o Drop(host1, i + 3)

DomA == <<"a", ".", "c", "o", "m">>
DomB == <<"b", ".", "c", "o", "m">>

----------------------------------------------------------------------------
\* C1: for a list in which a domain occurs more than once, domains1 / domains2
\* record the earliest position of the domain, and position_differences and
\* position_changes are computed from the earliest positions.
C1_FirstSeenWins ==
    Done =>
        /\ \A d \in DOMAIN similarity.domains1 :
              similarity.domains1[d] = FirstPosition(Organic1, d)
        /\ \A d \in DOMAIN similarity.domains2 :
              similarity.domains2[d] = FirstPosition(Organic2, d)
        /\ \A d \in similarity.common_domains :
              similarity.position_differences[d] =
                  Abs(FirstPosition(Organic1, d) - FirstPosition(Organic2, d))
        /\ \A d \in DOMAIN similarity.position_changes :
              /\ similarity.position_changes[d].pos1 = FirstPosition(Organic1, d)
              /\ similarity.position_changes[d].pos2 = FirstPosition(Organic2, d)

\* C2: when both lists are empty (or 'organic' is absent), the analysis
\* returns a report with both similarities 0 and does not raise.
C2_EmptyInputGuard ==
    (Analysed /\ Organic1 = <<>> /\ Organic2 = <<>>) =>
        /\ pc = "done"
        /\ IsZero(similarity.domain_similarity)
        /\ IsZero(similarity.url_similarity)

\* C3: for all pairs of lists, empty ones included, the analysis yields
\* domain_similarity and url_similarity in [0, 100], each being
\* |common| / max(|index A|, |index B|) * 100 over the distinct keys.
C3_RatiosInRange ==
    Analysed =>
        /\ pc = "done"
        /\ InRange(similarity.domain_similarity)
        /\ InRange(similarity.url_similarity)
        /\ similarity.domain_similarity =
              [num |-> Cardinality(DomainsOf(Organic1) \cap DomainsOf(Organic2)) * 100,
               den |-> Max(Cardinality(DomainsOf(Organic1)),
                           Cardinality(DomainsOf(Organic2)))]
        /\ similarity.url_similarity =
              [num |-> Cardinality(UrlsOf(Organic1) \cap UrlsOf(Organic2)) * 100,
               den |-> Max(Cardinality(UrlsOf(Organic1)),
                           Cardinality(UrlsOf(Organic2)))]

\* C4: position_changes holds exactly the common domains whose recorded
\* positions differ by more than 2 (2 excluded, 3 included), each with
\* pos1, pos2 and diff = pos2 - pos1, positive exactly when the domain is at
\* a higher-numbered position in the second list.
C4_SignificantChanges ==
    Done =>
        LET r == similarity
            posA(d) == r.domains1[d]
            posB(d) == r.domains2[d]
        IN  /\ DOMAIN r.position_changes \subseteq r.common_domains
            /\ \A d \in r.common_domains :
                  /\ posA(d) \in 1..Len(Organic1) /\ DomainAt(Organic1, posA(d)) = d
                  /\ posB(d) \in 1..Len(Organic2) /\ DomainAt(Organic2, posB(d)) = d
                  /\ (d \in DOMAIN r.position_changes) <=> (Abs(posA(d) - posB(d)) >= 3)
                  /\ (Abs(posA(d) - posB(d)) = 2) => (d \notin DOMAIN r.position_changes)
            /\ \A d \in DOMAIN r.position_changes :
                  /\ r.position_changes[d].pos1 = posA(d)
                  /\ r.position_changes[d].pos2 = posB(d)
                  /\ r.position_changes[d].diff = posB(d) - posA(d)
                  /\ (r.position_changes[d].diff > 0) <=> (posB(d) > posA(d))

\* A domain first at position 1 and then at position 4 is a recorded change.
C4_Witness ==
    /\ Done
    /\ \E d \in DOMAIN similarity.position_changes :
          /\ similarity.position_changes[d].pos1 = 1
          /\ similarity.position_changes[d].pos2 = 4
          /\ similarity.position_changes[d].diff = 3

\* C5: analyze(A, B) and analyze(B, A) agree on common_domains, common_urls,
\* both similarities and the keys of position_changes; for every key the diff
\* is negated and pos1 / pos2 are exchanged.
C5_SwapSymmetry ==
    /\ (pc = "error" /\ error = "ZeroDivisionError") => AnalyzeRaises(results2, results1)
    /\ Done =>
        /\ ~AnalyzeRaises(results2, results1)
        /\ LET ab == similarity
               ba == analyze_serp_similarity(results2, results1)
           IN  /\ ba.common_domains = ab.common_domains
               /\ ba.common_urls = ab.common_urls
               /\ ba.domain_similarity = ab.domain_similarity
               /\ ba.url_similarity = ab.url_similarity
               /\ DOMAIN ba.position_changes = DOMAIN ab.position_changes
               /\ \A d \in DOMAIN ab.position_changes :
                     /\ ba.position_changes[d].diff = -ab.position_changes[d].diff
                     /\ ba.position_changes[d].pos1 = ab.position_changes[d].pos2
                     /\ ba.position_changes[d].pos2 = ab.position_changes[d].pos1

\* Lists of different sizes with a common URL and a significant change.
C5_Witness ==
    /\ Done
    /\ Organic1 # Organic2
    /\ Cardinality(DOMAIN similarity.domains1) # Cardinality(DOMAIN similarity.domains2)
    /\ similarity.common_urls # {}
    /\ DOMAIN similarity.position_changes # {}

\* C6: lists without a common domain (one or both may be empty) give empty
\* common sets, both similarities 0, avg_position_diff 0 and no
\* position_changes, without raising.
C6_DisjointInputs ==
    (Analysed /\ DomainsOf(Organic1) \cap DomainsOf(Organic2) = {}) =>
        /\ pc = "done"
        /\ similarity.common_domains = {}
        /\ similarity.common_urls = {}
        /\ IsZero(similarity.domain_similarity)
        /\ IsZero(similarity.url_similarity)
        /\ IsZero(similarity.avg_position_diff)
        /\ DOMAIN similarity.position_changes = {}

\* C7: the same non-empty ordered list twice gives both similarities 100,
\* every position difference 0, avg_position_diff 0 and no position_changes.
C7_IdenticalInputs ==
    (Analysed /\ Organic1 = Organic2 /\ Len(Organic1) >= 1) =>
        /\ pc = "done"
        /\ IsHundred(similarity.domain_similarity)
        /\ IsHundred(similarity.url_similarity)
        /\ DOMAIN similarity.position_differences = DomainsOf(Organic1)
        /\ \A d \in DOMAIN similarity.position_differences :
              similarity.position_differences[d] = 0
        /\ IsZero(similarity.avg_position_diff)
        /\ DOMAIN similarity.position_changes = {}

\* The same list twice, with a domain that occurs twice in it.
C7_Witness ==
    /\ Done
    /\ Organic1 = Organic2
    /\ Len(Organic1) >= 2
    /\ HasDuplicateDomain(Organic1)

\* C8: get_domain removes only a leading 'www.'; hosts that differ by a
\* non-leading 'www.' get different domains and are never a common domain.
C8_LeadingWwwOnly ==
    Done =>
        /\ \A u \in UrlsOf(Organic1) \cup UrlsOf(Organic2) :
              get_domain(u) = StripLeadingWww(Netloc(u))
        /\ \A u1 \in UrlsOf(Organic1), u2 \in UrlsOf(Organic2) :
              (DiffersByInnerWww(Netloc(u1), Netloc(u2))
                  \/ DiffersByInnerWww(Netloc(u2), Netloc(u1)))
              => /\ get_domain(u1) # get_domain(u2)
                 /\ (DomainsOf(Organic1) = {get_domain(u1)}
                       /\ DomainsOf(Organic2) = {get_domain(u2)})
                    => similarity.common_domains = {}

\* C9: the keys of position_differences are exactly common_domains and each
\* value is |posA - posB| >= 0 over the recorded positions; for
\* A = [a.com/1, b.com/1], B = [b.com/2, a.com/1] the differences are
\* {a.com: 1, b.com: 1}, common_urls is {https://a.com/1} and
\* position_changes is empty.
C9_PositionDifferences ==
    Done =>
        LET r == similarity
        IN  /\ DOMAIN r.position_differences = r.common_domains
            /\ r.common_domains = DomainsOf(Organic1) \cap DomainsOf(Organic2)
            /\ \A d \in r.common_domains :
                  /\ r.position_differences[d] = Abs(r.domains1[d] - r.domains2[d])
                  /\ r.position_differences[d] \in Nat
                  /\ DomainAt(Organic1, r.domains1[d]) = d
                  /\ DomainAt(Organic2, r.domains2[d]) = d
            /\ (/\ Organic1 = <<[link |-> UrlA1], [link |-> UrlB1]>>
                /\ Organic2 = <<[link |-> UrlB2], [link |-> UrlA1]>>)
               => /\ r.position_differences = (DomA :> 1) @@ (DomB :> 1)
                  /\ r.common_urls = {UrlA1}
                  /\ DOMAIN r.position_changes = {}

\* The scenario A = [a.com/1, b.com/1], B = [b.com/2, a.com/1] was analysed.
C9_Witness ==
    /\ Done
    /\ Organic1 = <<[link |-> UrlA1], [link |-> UrlB1]>>
    /\ Organic2 = <<[link |-> UrlB2], [link |-> UrlA1]>>

\* C10: the domain of every common URL is a common domain, so a common URL
\* implies a common domain and domain_similarity > 0; every key of
\* position_changes is a key of position_differences and a common domain.
C10_UrlOverlapImpliesDomainOverlap ==
    Done =>
        LET r == similarity
        IN  /\ \A u \in r.common_urls : get_domain(u) \in r.common_domains
            /\ (r.common_urls # {}) =>
                  /\ r.common_domains # {}
                  /\ r.domain_similarity.num > 0
                  /\ r.domain_similarity.den > 0
            /\ DOMAIN r.position_changes \subseteq DOMAIN r.position_differences
            /\ DOMAIN r.position_changes \subseteq r.common_domains

\* A common URL and a significant position change in one report.
C10_Witness ==
    /\ Done
    /\ similarity.common_urls # {}
    /\ DOMAIN similarity.position_changes # {}
    /\ similarity.common_domains # DomainsOf(Organic1)

====
